---- MODULE Spec2Model ----
(***************************************************************************)
(* State-machine model of the real-time testing and monitoring engine,     *)
(* src/src/testing/realtime_testing_system.py (class RealTimeTestingSystem)*)
(* A control context calls start_testing / stop_testing; every successful  *)
(* start spawns one daemon thread that runs run_continuous_testing.        *)
(***************************************************************************)
EXTENDS Integers, Sequences, FiniteSets, Bags, TLC

(***************************************************************************)
(* Bounds of the model.                                                    *)
(***************************************************************************)
\* Total number of PredictionRecords the data sources supply data for.
MaxRecords == 2
\* Capacity of the history ring: deque(maxlen=1000) scaled down so that
\* eviction happens within MaxRecords appends.
maxlen == 1
\* Length of the persisted slice list(prediction_history)[-100:], scaled down.
LatestN == 1

(***************************************************************************)
(* Python values and their JSON text, as far as json.dump / json.load      *)
(* treat them.  A float is kept as the pair num/den of its literal.        *)
(***************************************************************************)
PyNone == [t |-> "none"]
PyBool(b) == [t |-> "bool", b |-> b]
PyInt(n) == [t |-> "int", n |-> n]
PyFloat(n, d) == [t |-> "float", n |-> n, d |-> d]
PyStr(s) == [t |-> "str", s |-> s]
PyList(items) == [t |-> "list", items |-> items]
\* a dict: its keys in insertion order and the value of each key
PyDict(keys, vals) == [t |-> "dict", keys |-> keys, vals |-> vals]

RECURSIVE JsonDump(_)
\* json.dump: None -> null, True/False -> true/false, int and float -> number
\* (a float keeps its fractional literal), str -> string, list -> array,
\* dict -> object with its keys in insertion order.
JsonDump(v) ==
    CASE v.t = "none" -> [j |-> "null"]
      [] v.t = "bool" -> [j |-> IF v.b THEN "true" ELSE "false"]
      [] v.t = "int" -> [j |-> "number", frac |-> FALSE, n |-> v.n, d |-> 1]
      [] v.t = "float" -> [j |-> "number", frac |-> TRUE, n |-> v.n, d |-> v.d]
      [] v.t = "str" -> [j |-> "string", s |-> v.s]
      [] v.t = "list" ->
           [j |-> "array",
            items |-> [i \in 1..Len(v.items) |-> JsonDump(v.items[i])]]
      [] v.t = "dict" ->
           [j |-> "object", keys |-> v.keys,
            vals |-> [i \in 1..Len(v.vals) |-> JsonDump(v.vals[i])]]

RECURSIVE JsonLoad(_)
\* json.load: the inverse reading; a number without a fraction is an int.
JsonLoad(x) ==
    CASE x.j = "null" -> PyNone
      [] x.j = "true" -> PyBool(TRUE)
      [] x.j = "false" -> PyBool(FALSE)
      [] x.j = "number" -> IF x.frac THEN PyFloat(x.n, x.d) ELSE PyInt(x.n)
      [] x.j = "string" -> PyStr(x.s)
      [] x.j = "array" ->
           PyList([i \in 1..Len(x.items) |-> JsonLoad(x.items[i])])
      [] x.j = "object" ->
           PyDict(x.keys, [i \in 1..Len(x.vals) |-> JsonLoad(x.vals[i])])

\* d[key] of a dict value
PyGet(d, key) ==
    LET i == CHOOSE i \in 1..Len(d.keys) : d.keys[i] = key IN d.vals[i]

\* the strings of a list of str
StrList(l) == [i \in 1..Len(l.items) |-> l.items[i].s]

(***************************************************************************)
(* Files.  A file is absent, holds a complete JSON document, or holds the  *)
(* prefix of one that an interrupted json.dump left behind.                *)
(***************************************************************************)
AbsentFile == [kind |-> "absent"]
PartialFile == [kind |-> "partial"]
JsonFile(doc) == [kind |-> "json", doc |-> doc]

\* what opening a file for writing and dumping into it can do
IOOutcomes == {"ok", "open_raises", "dump_raises"}

\* with open(path, "w") as f: json.dump(value, f): the file after the
\* statement, given what the file system does.
WriteJson(file, value, io) ==
    CASE io = "ok" -> JsonFile(JsonDump(value))
      [] io = "open_raises" -> file
      [] io = "dump_raises" -> PartialFile

(***************************************************************************)
(* load_config                                                             *)
(***************************************************************************)
default_config ==
    PyDict(
      <<"test_tickers", "data_interval", "prediction_interval", "api_config",
        "monitoring_thresholds", "performance_window", "business_thresholds">>,
      <<PyList(<<PyStr("AAPL"), PyStr("MSFT"), PyStr("GOOGL"), PyStr("AMZN"),
                 PyStr("TSLA")>>),
        PyStr("1m"),
        PyInt(300),
        PyDict(<<"use_yahoo_rss", "use_free_news_api", "newsapi_key">>,
               <<PyBool(TRUE), PyBool(TRUE), PyNone>>),
        PyDict(<<"confidence_threshold", "warning_threshold",
                 "action_threshold", "drift_threshold",
                 "retrain_accuracy_threshold">>,
               <<PyFloat(75, 100), PyFloat(65, 100), PyFloat(75, 100),
                 PyFloat(1, 10), PyFloat(60, 100)>>),
        PyInt(100),
        PyDict(<<"price_change_major", "volume_spike", "volatility_high">>,
               <<PyFloat(5, 100), PyFloat(30, 10), PyFloat(9, 10)>>)>>)

\* load_config that writes the default over whatever is there
load_config_overwriting(file, io) ==
    [raised |-> io # "ok",
     ret |-> IF io = "ok" THEN default_config ELSE PyNone,
     file |-> WriteJson(file, default_config, io)]

\* load_config: [raised, ret, file].  An absent file is FileNotFoundError:
\* the default is written and returned.  A file that does not parse raises
\* JSONDecodeError, which load_config does not catch.
load_config(file, io) ==
    CASE file.kind = "json" ->
           [raised |-> FALSE, ret |-> JsonLoad(file.doc), file |-> file]
      [] file.kind = "partial" ->
           [raised |-> TRUE, ret |-> PyNone, file |-> file]
      [] file.kind = "absent" ->
           [raised |-> io # "ok",
            ret |-> IF io = "ok" THEN default_config ELSE PyNone,
            file |-> WriteJson(file, default_config, io)]


\* a config an operator has put in place before the start
operator_config ==
    PyDict(<<"test_tickers", "data_interval", "prediction_interval">>,
           <<PyList(<<PyStr("NVDA"), PyStr("AAPL")>>), PyStr("1m"),
             PyInt(120)>>)

(***************************************************************************)
(* load_trained_models                                                     *)
(***************************************************************************)
\* the artifacts load_trained_models looks for, in the order it loads them
ModelNames == <<"random_forest", "gradient_boosting">>
ModelNameSet == {ModelNames[i] : i \in 1..Len(ModelNames)}
\* the artifact whose joblib.load raises, if any
LoadFailures == {"none", "random_forest", "gradient_boosting", "scaler"}

\* self.models[name] = ...: a dict keeps the position of a key it has
SetKey(keys, name) ==
    IF \E i \in 1..Len(keys) : keys[i] = name THEN keys ELSE Append(keys, name)

\* load_trained_models without the test for an empty self.models
load_trained_models_unchecked(mods, scl, files, scaler_exists, fail) ==
    LET loaded == IF "random_forest" \in files /\ fail # "random_forest"
                  THEN SetKey(mods, "random_forest") ELSE mods
    IN  [models |-> loaded, scaler |-> scl,
         ret |-> ~(fail \in files \/ (fail = "scaler" /\ scaler_exists))]

\* load_trained_models: [ret, models, scaler].  Each artifact that exists is
\* loaded in turn; the first joblib.load that raises ends the method with
\* False, after the earlier assignments; no model loaded is False too.
load_trained_models(mods, scl, files, scaler_exists, fail) ==
    LET rf_there == "random_forest" \in files
        gb_there == "gradient_boosting" \in files
        rf_raises == rf_there /\ fail = "random_forest"
        m1 == IF rf_there /\ ~rf_raises
              THEN SetKey(mods, "random_forest") ELSE mods
        gb_raises == ~rf_raises /\ gb_there /\ fail = "gradient_boosting"
        m2 == IF ~rf_raises /\ gb_there /\ ~gb_raises
              THEN SetKey(m1, "gradient_boosting") ELSE m1
        sc_raises == ~rf_raises /\ ~gb_raises /\ scaler_exists
                     /\ fail = "scaler"
        s1 == IF ~rf_raises /\ ~gb_raises /\ scaler_exists /\ ~sc_raises
              THEN TRUE ELSE scl
    IN  [models |-> m2, scaler |-> s1,
         ret |-> ~(rf_raises \/ gb_raises \/ sc_raises) /\ m2 # <<>>]

(***************************************************************************)
(* Floating-point numbers.  A float is kept as the fraction n/d in lowest  *)
(* terms with d >= 0: d = 0 holds the values that IEEE arithmetic adds to  *)
(* the numbers, nan as 0/0 and +inf, -inf as 1/0, -1/0.  Rounding is not   *)
(* modelled.                                                               *)
(***************************************************************************)
Abs(n) == IF n < 0 THEN 0 - n ELSE n
Sign(n) == IF n > 0 THEN 1 ELSE IF n < 0 THEN 0 - 1 ELSE 0

RECURSIVE GCD(_, _)
GCD(a, b) == IF b = 0 THEN a ELSE GCD(b, a % b)

\* the float n/d
F(n, d) ==
    IF d = 1 THEN [n |-> n, d |-> 1]
    ELSE IF d = 0 THEN [n |-> Sign(n), d |-> 0]
    ELSE LET g == GCD(Abs(n), Abs(d))
         IN  [n |-> (Sign(d) * n) \div g, d |-> Abs(d) \div g]

nan == F(0, 0)
IsNaN(x) == x.d = 0 /\ x.n = 0
\* np.isfinite
IsFinite(x) == x.d # 0

FNeg(a) == [n |-> 0 - a.n, d |-> a.d]
\* the value with its sign kept
FSigned(a) == a

\* abs(a)
FAbs(a) == [n |-> Abs(a.n), d |-> a.d]
\* a + b: inf + inf is inf, inf - inf is nan
FAdd(a, b) ==
    IF a.d = 0 /\ b.d = 0
    THEN (IF a.n = b.n THEN a ELSE nan)
    ELSE F(a.n * b.d + b.n * a.d, a.d * b.d)
FSub(a, b) == FAdd(a, FNeg(b))
FMul(a, b) == F(a.n * b.n, a.d * b.d)
\* a / b of numpy scalars: x/0 is inf or -inf and 0/0 is nan, with a
\* RuntimeWarning and no exception
FDiv(a, b) == F(a.n * b.d, a.d * b.n)
\* a >= b
FGe(a, b) == ~IsNaN(a) /\ ~IsNaN(b) /\ a.n * b.d >= b.n * a.d

\* a > b: False when one of them is nan
FGt(a, b) == ~IsNaN(a) /\ ~IsNaN(b) /\ a.n * b.d > b.n * a.d

RECURSIVE Sum(_)
Sum(s) == IF s = <<>> THEN 0 ELSE Head(s) + Sum(Tail(s))

\* s[:n]
FirstN(s, n) == IF Len(s) <= n THEN s ELSE SubSeq(s, 1, n)

\* s[-n:]
LastN(s, n) == IF Len(s) <= n THEN s ELSE SubSeq(s, Len(s) - n + 1, Len(s))

\* the mean of a window that is padded with zeros to 50 elements
np_mean_padded(s) == F(Sum(s), 50)

\* np.mean of an array of integers (nan for an empty one)
np_mean(s) == F(Sum(s), Len(s))

\* the integer part of the square root
ISqrt(n) == CHOOSE r \in 0..n : r * r <= n /\ (r + 1) * (r + 1) > n

\* np.std of an array of integers: the root of the mean squared deviation,
\* sqrt(N * sum(x^2) - sum(x)^2) / N, the root taken to its integer part
np_std(s) ==
    LET N == Len(s)
        squares == [i \in 1..N |-> s[i] * s[i]]
    IN  F(ISqrt(N * Sum(squares) - Sum(s) * Sum(s)), N)

\* np.diff
np_diff(s) == [i \in 1..(Len(s) - 1) |-> s[i + 1] - s[i]]

(***************************************************************************)
(* Data collection                                                         *)
(***************************************************************************)
\* features is None
None == [none |-> TRUE]

\* the columns of a frame of market bars that _calculate_features reads
Columns == {"Open", "High", "Low", "Close", "Volume"}

\* the fields of the feature dict that make_prediction hands to the
\* scaler and the models, in their order
feature_names ==
    <<"open", "high", "low", "close", "volume", "sma_20", "sma_50", "rsi",
      "macd", "bb_upper", "bb_lower", "atr", "volatility", "obv",
      "price_change", "volume_change", "unusual_volume", "price_spike",
      "news_sentiment", "news_polarity", "news_count">>

\* _calculate_features: the feature dict of the ticker computed from the
\* bars hist (prices and volumes are integers), or None when the
\* computation raises, which an empty frame (hist.iloc[-1]) and a frame
\* without one of the columns do; the method catches every exception.
calculate_features(ticker, hist, avg_sentiment, avg_polarity, news_count, clock) ==
    IF hist = <<>> \/ \E i \in 1..Len(hist) : ~(Columns \subseteq DOMAIN hist[i])
    THEN None
    ELSE
    LET latest_data == hist[Len(hist)]
        close_prices == [i \in 1..Len(hist) |-> hist[i].Close]
        volumes == [i \in 1..Len(hist) |-> hist[i].Volume]
        n == Len(close_prices)
        sma_20 == IF n >= 20 THEN np_mean(LastN(close_prices, 20))
                  ELSE F(close_prices[n], 1)
        sma_50 == IF n >= 50 THEN np_mean(LastN(close_prices, 50))
                  ELSE F(close_prices[n], 1)
        price_changes == np_diff(close_prices)
        gains == [i \in 1..Len(price_changes) |->
                    IF price_changes[i] > 0 THEN price_changes[i] ELSE 0]
        losses == [i \in 1..Len(price_changes) |->
                     IF price_changes[i] < 0 THEN 0 - price_changes[i] ELSE 0]
        avg_gain == IF Len(gains) >= 14 THEN np_mean(LastN(gains, 14))
                    ELSE F(0, 1)
        avg_loss == IF Len(losses) >= 14 THEN np_mean(LastN(losses, 14))
                    ELSE F(1, 1000)
        rsi == FSub(F(100, 1),
                    FDiv(F(100, 1),
                         FAdd(F(1, 1), FDiv(avg_gain, avg_loss))))
        volatility == IF n >= 20 THEN np_std(LastN(close_prices, 20))
                      ELSE F(0, 1)
        volume_change ==
            IF Len(volumes) >= 2
            THEN FDiv(F(volumes[n] - volumes[n - 1], 1), F(volumes[n - 1], 1))
            ELSE F(0, 1)
        price_change ==
            IF n >= 2
            THEN FDiv(F(close_prices[n] - close_prices[n - 1], 1),
                      F(close_prices[n - 1], 1))
            ELSE F(0, 1)
    IN  [none |-> FALSE,
         ticker |-> ticker,
         timestamp |-> clock,
         open |-> F(latest_data.Open, 1),
         high |-> F(latest_data.High, 1),
         low |-> F(latest_data.Low, 1),
         close |-> F(latest_data.Close, 1),
         volume |-> F(latest_data.Volume, 1),
         sma_20 |-> sma_20,
         sma_50 |-> sma_50,
         rsi |-> rsi,
         macd |-> F(0, 1),
         bb_upper |-> FAdd(sma_20, FMul(F(2, 1), volatility)),
         bb_lower |-> FSub(sma_20, FMul(F(2, 1), volatility)),
         atr |-> volatility,
         volatility |-> volatility,
         obv |-> F(0, 1),
         price_change |-> price_change,
         volume_change |-> volume_change,
         unusual_volume |-> IF FGt(volume_change, F(2, 1))
                            THEN F(1, 1) ELSE F(0, 1),
         price_spike |-> IF FGt(FAbs(price_change), F(5, 100))
                         THEN F(1, 1) ELSE F(0, 1),
         news_sentiment |-> avg_sentiment,
         news_polarity |-> avg_polarity,
         news_count |-> F(news_count, 1)]

\* what a call of a data source does: it raises, or it returns a value
Raises == [kind |-> "raises"]
Returns(v) == [kind |-> "returns", v |-> v]

\* a bar of market data with one price
Bar(price, volume) ==
    [Open |-> price, High |-> price, Low |-> price, Close |-> price,
     Volume |-> volume]

\* what the market data sources give the engine: an exception, an empty
\* frame, a frame of another layout, a frame of one bar
SourceOutcomes ==
    {Raises, Returns(<<>>), Returns(<<[Date |-> 0]>>),
     Returns(<<Bar(60, 10)>>)}

\* what the news sources give while the engine runs: an exception or no
\* news; the sentiment_score and the polarity of an item are in hundredths
NewsOutcomes == {Raises, Returns(<<>>)}

(***************************************************************************)
(* APIManager (src/src/core/api_config): the sources and their fallback    *)
(***************************************************************************)
\* a body without a handler: what the body does reaches the caller
Uncaught(out, default) == out

\* try: body, except Exception: log the error and return the default
Caught(out, default) ==
    IF out.kind = "raises" THEN Returns(default) ELSE out

\* a news item as a source builds it, in hundredths
NewsItem(source, polarity) ==
    [source |-> source, sentiment_score |-> Abs(polarity),
     polarity |-> polarity]

\* a frame of market data that is not None
DataFrame(rows) == [none |-> FALSE, rows |-> rows]

\* get_news_data_yahoo_rss: an item for every entry of the feed
get_news_data_yahoo_rss(feed) ==
    Caught(IF feed.kind = "raises" THEN feed
           ELSE Returns([i \in 1..Len(feed.v) |->
                            NewsItem("Yahoo Finance", feed.v[i])]), <<>>)

\* get_news_data_free_api: an item for every result of a response whose
\* status is success, [] for another status
get_news_data_free_api(response) ==
    Caught(IF response.kind = "raises" THEN response
           ELSE IF response.v.status = "success"
           THEN Returns([i \in 1..Len(response.v.results) |->
                            NewsItem("newsdata", response.v.results[i])])
           ELSE Returns(<<>>), <<>>)

\* get_news_data_web_scraping: an item for every article of the page
get_news_data_web_scraping(page) ==
    Caught(IF page.kind = "raises" THEN page
           ELSE Returns([i \in 1..Len(page.v) |->
                            NewsItem("Google News", page.v[i])]), <<>>)

\* get_news_data: the sources in turn while news_data is empty.  The
\* result is what the call does and the sources it has consulted.
get_news_data(feed, response, page) ==
    LET first == get_news_data_yahoo_rss(feed)
        second == get_news_data_free_api(response)
        third == get_news_data_web_scraping(page)
    IN  IF first.kind = "raises" \/ first.v # <<>>
        THEN [outcome |-> first, consulted |-> <<"yahoo_rss">>]
        ELSE IF second.kind = "raises" \/ second.v # <<>>
        THEN [outcome |-> second,
              consulted |-> <<"yahoo_rss", "free_news_api">>]
        ELSE [outcome |-> third,
              consulted |-> <<"yahoo_rss", "free_news_api",
                              "web_scraping">>]

\* get_market_data_yfinance: the history, None when it is empty
get_market_data_yfinance(history) ==
    Caught(IF history.kind = "raises" THEN history
           ELSE IF history.v = <<>> THEN Returns(None)
           ELSE Returns(DataFrame(history.v)), None)

\* get_market_data_alpha_vantage_free: a frame of the one quote of the
\* response, None for a response without 'Global Quote'
get_market_data_alpha_vantage_free(response) ==
    Caught(IF response.kind = "raises" THEN response
           ELSE IF response.v = <<>> THEN Returns(None)
           ELSE Returns(DataFrame(response.v)), None)

\* get_market_data: yfinance, and Alpha Vantage when data is None
get_market_data(history, response) ==
    LET first == get_market_data_yfinance(history)
        second == get_market_data_alpha_vantage_free(response)
    IN  IF first.kind = "raises" \/ ~first.v.none
        THEN [outcome |-> first, consulted |-> <<"yfinance">>]
        ELSE [outcome |-> second,
              consulted |-> <<"yfinance", "alpha_vantage_free">>]

\* _fallback_data_collection: yfinance directly; empty or raising is None.
fallback_data_collection(ticker, fallback, clock) ==
    IF fallback.kind = "raises" \/ fallback.v = <<>> THEN None
    ELSE calculate_features(ticker, fallback.v, F(0, 1), F(0, 1), 0, clock)

\* collect_realtime_data: the APIManager first; no market data is None, an
\* exception anywhere in the body goes to the fallback.
collect_realtime_data(ticker, primary, news, fallback, clock) ==
    IF primary.kind = "raises"
    THEN fallback_data_collection(ticker, fallback, clock)
    ELSE IF primary.v = <<>> THEN None
    ELSE IF news.kind = "raises"
    THEN fallback_data_collection(ticker, fallback, clock)
    ELSE LET news_data == news.v
             scores == [i \in 1..Len(news_data) |->
                           news_data[i].sentiment_score]
             polarities == [i \in 1..Len(news_data) |->
                               news_data[i].polarity]
         IN  IF news_data # <<>>
             THEN calculate_features(ticker, primary.v,
                      F(Sum(scores), 100 * Len(news_data)),
                      F(Sum(polarities), 100 * Len(news_data)),
                      Len(news_data), clock)
             ELSE calculate_features(ticker, primary.v, F(0, 1), F(0, 1),
                                     0, clock)

(***************************************************************************)
(* make_prediction                                                         *)
(***************************************************************************)
\* probability of the event class a model may report, in percent
Probabilities == {30, 80}
Max(a, b) == IF a >= b THEN a ELSE b

\* model.predict of the scikit-learn classifiers that model_training.py
\* saves: the class with the larger probability, class 0 on a tie
Predicted(proba) == IF proba > 100 - proba THEN 1 ELSE 0

ModelRaises == [raises |-> TRUE, pred_class |-> 0, proba |-> 0]

\* what one model does when called: predict_proba or predict raises, or
\* they return the class probabilities [100 - proba, proba] and the class.
ModelOutcomes ==
    {ModelRaises} \cup
    {[raises |-> FALSE, pred_class |-> Predicted(p), proba |-> p] :
        p \in Probabilities}

RECURSIVE PredictEachAbort(_, _, _)
\* the loop over the models with the try around the whole loop: the first
\* model that raises ends it
PredictEachAbort(mods, calls, acc) ==
    IF mods = <<>> \/ calls[Head(mods)].raises THEN acc
    ELSE LET m == Head(mods)
             c == calls[m]
         IN  PredictEachAbort(Tail(mods), calls,
                 Append(acc, [model |-> m,
                              prediction |-> c.pred_class,
                              probability |-> c.proba,
                              confidence |-> Max(c.proba, 100 - c.proba)]))

RECURSIVE PredictEach(_, _, _)
\* the loop over self.models.items(): a model that raises adds no entry and
\* the loop goes on with the next model.
PredictEach(mods, calls, acc) ==
    IF mods = <<>> THEN acc
    ELSE LET m == Head(mods)
             c == calls[m]
         IN  PredictEach(Tail(mods), calls,
                 IF c.raises THEN acc
                 ELSE Append(acc, [model |-> m,
                                   prediction |-> c.pred_class,
                                   probability |-> c.proba,
                                   confidence |-> Max(c.proba, 100 - c.proba)]))

\* X = np.array([features[name] for name in feature_names]): the values of
\* the schema fields in their order; a field that the dict lacks is a
\* KeyError.
feature_matrix(feats) ==
    IF \A i \in 1..Len(feature_names) : feature_names[i] \in DOMAIN feats
    THEN [raised |-> FALSE,
          X |-> [i \in 1..Len(feature_names) |-> feats[feature_names[i]]]]
    ELSE [raised |-> TRUE, X |-> <<>>]

\* the statements of make_prediction before the loop over the models
\* raise: the feature matrix, or the transform of a loaded scaler
preparation_raises(feats, scl, scaler_raises) ==
    feature_matrix(feats).raised \/ (scl /\ scaler_raises)

\* make_prediction: the entries in the order of self.models; {} when the
\* feature matrix or the scaler raises.
make_prediction(feats, mods, scl, scaler_raises, calls) ==
    IF preparation_raises(feats, scl, scaler_raises) THEN <<>>
    ELSE PredictEach(mods, calls, <<>>)

(***************************************************************************)
(* The history ring and the performance metrics                            *)
(***************************************************************************)
\* a list in place of the deque: nothing is dropped
list_append(h, r) == Append(h, r)

\* deque(maxlen).append: a full deque drops its leftmost element
deque_append(h, r) ==
    IF Len(h) >= maxlen THEN Append(Tail(h), r) ELSE Append(h, r)

\* actual_event=None
NoEvent == 0 - 1

new_metrics(ticker) ==
    [ticker |-> ticker, total_predictions |-> 0, correct_predictions |-> 0,
     false_positives |-> 0, false_negatives |-> 0, confidence_scores |-> <<>>]

HasKey(pm, ticker) == \E i \in 1..Len(pm) : pm[i].ticker = ticker
KeyIndex(pm, ticker) == CHOOSE i \in 1..Len(pm) : pm[i].ticker = ticker

RECURSIVE CountEach(_, _, _)
\* the loop over latest_pred["predictions"].items()
CountEach(preds, actual, m) ==
    IF preds = <<>> THEN m
    ELSE LET p == Head(preds)
             m1 == CASE p.prediction = actual ->
                          [m EXCEPT !.correct_predictions = @ + 1]
                      [] p.prediction # actual /\ p.prediction = 1
                            /\ actual = 0 ->
                          [m EXCEPT !.false_positives = @ + 1]
                      [] p.prediction # actual /\ p.prediction = 0
                            /\ actual = 1 ->
                          [m EXCEPT !.false_negatives = @ + 1]
                      [] OTHER -> m
         IN  CountEach(Tail(preds), actual,
                 [m1 EXCEPT !.confidence_scores = Append(@, p.confidence)])

\* the metrics map when total_predictions counts every model entry of
\* the latest record
evaluate_prediction_performance_per_model(pm, history, ticker, actual_event) ==
    LET pm1 == IF HasKey(pm, ticker) THEN pm
               ELSE Append(pm, new_metrics(ticker))
        k == KeyIndex(pm1, ticker)
        recent == SelectSeq(history, LAMBDA p : p.ticker = ticker)
        latest_pred == recent[Len(recent)]
        actual == IF actual_event = NoEvent THEN 0 ELSE actual_event
        counted == [pm1[k] EXCEPT !.total_predictions =
                                      @ + Len(latest_pred.predictions)]
    IN  IF recent = <<>> THEN pm1
        ELSE [pm1 EXCEPT ![k] =
                  CountEach(latest_pred.predictions, actual, counted)]

\* evaluate_prediction_performance: the metrics map after the call
evaluate_prediction_performance(pm, history, ticker, actual_event) ==
    LET pm1 == IF HasKey(pm, ticker) THEN pm
               ELSE Append(pm, new_metrics(ticker))
        k == KeyIndex(pm1, ticker)
        recent == SelectSeq(history, LAMBDA p : p.ticker = ticker)
        latest_pred == recent[Len(recent)]
        actual == IF actual_event = NoEvent THEN 0 ELSE actual_event
        counted == [pm1[k] EXCEPT !.total_predictions = @ + 1]
    IN  IF recent = <<>> THEN pm1
        ELSE [pm1 EXCEPT ![k] =
                  CountEach(latest_pred.predictions, actual, counted)]

(***************************************************************************)
(* The results document                                                    *)
(***************************************************************************)
PredictionPy(p) ==
    PyDict(<<"prediction", "probability", "confidence">>,
           <<PyInt(p.prediction), PyFloat(p.probability, 100),
             PyFloat(p.confidence, 100)>>)

\* the feature dict as json.dump sees it
FeaturesPy(f) ==
    PyDict(<<"ticker", "timestamp">> \o feature_names,
           <<PyStr(f.ticker), PyStr(ToString(f.timestamp))>> \o
           [i \in 1..Len(feature_names) |->
               PyFloat(f[feature_names[i]].n, f[feature_names[i]].d)])

RecordPy(r) ==
    PyDict(<<"ticker", "timestamp", "features", "predictions">>,
           <<PyStr(r.ticker), PyStr(ToString(r.timestamp)),
             FeaturesPy(r.features),
             PyDict([i \in 1..Len(r.predictions) |-> r.predictions[i].model],
                    [i \in 1..Len(r.predictions) |->
                        PredictionPy(r.predictions[i])])>>)

\* one instrument's metrics dict; accuracy and avg_confidence are set by
\* the first call that counts a prediction (np.mean of no score is NaN, 0/0)
MetricsPy(m) ==
    LET scores == [i \in 1..Len(m.confidence_scores) |->
                       PyFloat(m.confidence_scores[i], 100)]
        base_keys == <<"total_predictions", "correct_predictions",
                       "false_positives", "false_negatives",
                       "confidence_scores">>
        base_vals == <<PyInt(m.total_predictions),
                       PyInt(m.correct_predictions),
                       PyInt(m.false_positives), PyInt(m.false_negatives),
                       PyList(scores)>>
    IN  IF m.total_predictions > 0
        THEN PyDict(base_keys \o <<"accuracy", "avg_confidence">>,
                    base_vals \o
                    <<PyFloat(m.correct_predictions, m.total_predictions),
                      PyFloat(Sum(m.confidence_scores),
                              100 * Len(m.confidence_scores))>>)
        ELSE PyDict(base_keys, base_vals)

\* the dict that the loop dumps into realtime_results.json
ResultsDocument(history, pm, clock) ==
    PyDict(<<"latest_predictions", "performance_metrics", "last_update">>,
           <<PyList([i \in 1..Len(LastN(history, LatestN)) |->
                        RecordPy(LastN(history, LatestN)[i])]),
             PyDict([i \in 1..Len(pm) |-> pm[i].ticker],
                    [i \in 1..Len(pm) |-> MetricsPy(pm[i])]),
             PyStr(ToString(clock))>>)

(***************************************************************************)
(* XAIMonitoringSystem.detect_feature_drift (src/src/utils/xai_monitoring) *)
(***************************************************************************)
\* a window of samples: a two-dimensional array of cols columns
Window(cols, rows) == [cols |-> cols, rows |-> rows]

\* X[:, i]
Column(X, i) == [r \in 1..Len(X.rows) |-> X.rows[r][i]]

MinOf(a, b) == IF a <= b THEN a ELSE b

\* the entry when the drifts are normalised without the test of train_std
drift_entry_unguarded(X_train, X_test, feature, i, threshold) ==
    LET train_mean == np_mean(Column(X_train, i))
        test_mean == np_mean(Column(X_test, i))
        train_std == np_std(Column(X_train, i))
        test_std == np_std(Column(X_test, i))
        mean_drift == FDiv(FAbs(FSub(test_mean, train_mean)), train_std)
        std_drift == FDiv(FAbs(FSub(test_std, train_std)), train_std)
        is_drift == FGt(mean_drift, threshold) \/ FGt(std_drift, threshold)
    IN  [feature |-> feature,
         mean_drift |-> mean_drift,
         std_drift |-> std_drift,
         is_drift |-> is_drift,
         drift_severity |->
             IF FGt(mean_drift, FMul(threshold, F(2, 1))) THEN "high"
             ELSE IF is_drift THEN "medium" ELSE "low"]

\* what detect_feature_drift records for the feature at position i
drift_entry(X_train, X_test, feature, i, threshold) ==
    LET train_mean == np_mean(Column(X_train, i))
        test_mean == np_mean(Column(X_test, i))
        train_std == np_std(Column(X_train, i))
        test_std == np_std(Column(X_test, i))
        mean_drift == IF FGt(train_std, F(0, 1))
                      THEN FDiv(FAbs(FSub(test_mean, train_mean)), train_std)
                      ELSE F(0, 1)
        std_drift == IF FGt(train_std, F(0, 1))
                     THEN FDiv(FAbs(FSub(test_std, train_std)), train_std)
                     ELSE F(0, 1)
        is_drift == FGt(mean_drift, threshold) \/ FGt(std_drift, threshold)
    IN  [feature |-> feature,
         mean_drift |-> mean_drift,
         std_drift |-> std_drift,
         is_drift |-> is_drift,
         drift_severity |->
             IF FGt(mean_drift, FMul(threshold, F(2, 1))) THEN "high"
             ELSE IF is_drift THEN "medium" ELSE "low"]

\* detect_feature_drift: the entries of drift_results in the order of
\* feature_names.  The index of a column that a window does not have
\* raises IndexError, which ends the loop: the entries made so far are
\* returned.
detect_feature_drift(X_train, X_test, feature_names_, threshold) ==
    [i \in 1..MinOf(Len(feature_names_), MinOf(X_train.cols, X_test.cols)) |->
        drift_entry(X_train, X_test, feature_names_[i], i, threshold)]

(***************************************************************************)
(* XAIMonitoringSystem.create_monitoring_dashboard                         *)
(***************************************************************************)
\* the feature_drift_summary of the dashboard
feature_drift_summary(drift_results) ==
    [total_features |-> Len(drift_results),
     drift_detected |->
         Cardinality({i \in 1..Len(drift_results) :
                         drift_results[i].is_drift}),
     high_severity_drift |->
         Cardinality({i \in 1..Len(drift_results) :
                         drift_results[i].drift_severity = "high"})]

\* the alerts when every detected drift raises the feature_drift alert
dashboard_alerts_any_drift(confidence_results, summary) ==
    [i \in 1..Len(SelectSeq(confidence_results,
            LAMBDA c : FGt(c.low_confidence_ratio, F(2, 10)))) |->
        [type |-> "low_confidence", severity |-> "warning"]] \o
    (IF summary.drift_detected > 0
     THEN <<[type |-> "feature_drift", severity |-> "critical"]>>
     ELSE <<>>)

\* the alerts of the dashboard: one for every model whose
\* low_confidence_ratio is above 0.2, then one for high severity drift
dashboard_alerts(confidence_results, summary) ==
    [i \in 1..Len(SelectSeq(confidence_results,
            LAMBDA c : FGt(c.low_confidence_ratio, F(2, 10)))) |->
        [type |-> "low_confidence", severity |-> "warning"]] \o
    (IF summary.high_severity_drift > 0
     THEN <<[type |-> "feature_drift", severity |-> "critical"]>>
     ELSE <<>>)

\* create_monitoring_dashboard: the dashboard it returns, or None when
\* writing monitoring_dashboard.json raises
create_monitoring_dashboard(confidence_results, drift_results, io) ==
    IF io # "ok" THEN None
    ELSE [none |-> FALSE,
          confidence_metrics |-> confidence_results,
          feature_drift_summary |-> feature_drift_summary(drift_results),
          alerts |-> dashboard_alerts(confidence_results,
                                      feature_drift_summary(drift_results))]

(***************************************************************************)
(* State                                                                   *)
(***************************************************************************)
VARIABLES
    config_file,          \* realtime_config.json on disk
    model_files,          \* the *_model.pkl artifacts present in data_dir
    scaler_file,          \* whether scaler.pkl is present
    results_file,         \* realtime_results.json on disk
    models,               \* self.models: the loaded names, in insertion order
    scaler,               \* self.scaler is not None
    is_running,           \* self.is_running
    prediction_history,   \* self.prediction_history
    performance_metrics,  \* self.performance_metrics
    config,               \* what the last load_config returned
    last_call,            \* the last call of the control context and what it returned
    pc,                   \* position of each thread in run_continuous_testing
    tickers,              \* argument tickers of each thread
    interval,             \* argument interval of each thread
    idx,                  \* position of the for loop over tickers
    features,             \* local features
    predictions,          \* local predictions
    model_calls,          \* what each model did when make_prediction called it
    slept,                \* seconds of the pending or last time.sleep
    now,                  \* the clock: number of records appended so far
    appended,             \* the bag of the tickers of the records appended so far
    call,                 \* a call of one function on its own: name, arguments
    ret                   \* what that call returned

vars == <<config_file, model_files, scaler_file, results_file, models, scaler,
          is_running, prediction_history, performance_metrics, config,
          last_call, pc, tickers, interval, idx, features,
          predictions, model_calls, slept, now, appended, call, ret>>

disk == <<config_file, model_files, scaler_file, results_file>>
registry == <<models, scaler>>
control == <<config, last_call>>
locals == <<tickers, interval, idx, features, predictions, model_calls, slept>>
bench == <<call, ret>>
engine == <<disk, registry, is_running, prediction_history,
            performance_metrics, control, pc, locals, now, appended>>

\* no function is called on its own
NoCall == [fn |-> "none"]
\* the call has not returned yet; it has returned v
Pending == [pending |-> TRUE]
Returned(v) == [pending |-> FALSE, v |-> v]

\* the threads that start_testing may create, in the order it creates them
Workers == {1, 2}

\* the object after __init__
Constructed ==
    /\ models = <<>>
    /\ scaler = FALSE
    /\ is_running = FALSE
    /\ prediction_history = <<>>
    /\ performance_metrics = <<>>
    /\ config = PyNone
    /\ last_call = "none"
    /\ pc = [w \in Workers |-> "unborn"]
    /\ tickers = [w \in Workers |-> <<>>]
    /\ interval = [w \in Workers |-> 0]
    /\ idx = [w \in Workers |-> 0]
    /\ features = [w \in Workers |-> None]
    /\ predictions = [w \in Workers |-> <<>>]
    /\ model_calls = [w \in Workers |-> <<>>]
    /\ slept = [w \in Workers |-> 0]
    /\ now = 0
    /\ appended = EmptyBag

\* the state after __init__, for every content of the working directory
Boot ==
    /\ config_file \in {AbsentFile, JsonFile(JsonDump(operator_config))}
    /\ model_files \in SUBSET ModelNameSet
    /\ scaler_file \in BOOLEAN
    /\ results_file = AbsentFile
    /\ Constructed
    /\ call = NoCall
    /\ ret = Pending


\* the engine in the working directory that setup and training leave: a
\* config in place, and scaler.pkl, which model_training.py saves with
\* the models
Init == Boot /\ config_file # AbsentFile /\ scaler_file

(***************************************************************************)
(* The control context: start_testing, stop_testing                        *)
(***************************************************************************)
\* the positions of a thread inside the for loop over tickers
SweepPcs == {"collect", "predict", "append", "evaluate", "persist"}

\* start_testing: load_config, load_trained_models, and on success a new
\* daemon thread with the tickers and the interval of the config.  An
\* exception of load_config reaches the caller.
start_testing ==
    \E out \in {<<load_config(config_file, io),
                   load_trained_models(models, scaler, model_files,
                                       scaler_file, fail)>> :
                 io \in IOOutcomes, fail \in LoadFailures} :
        LET lc == out[1]
            lm == out[2]
        IN  /\ config_file' = lc.file
            /\ IF lc.raised
               THEN /\ last_call' = "raised"
                    /\ UNCHANGED <<config, models, scaler, pc, tickers,
                                   interval>>
               ELSE /\ config' = lc.ret
                    /\ models' = lm.models
                    /\ scaler' = lm.scaler
                    /\ IF ~lm.ret
                       THEN /\ last_call' = "False"
                            /\ UNCHANGED <<pc, tickers, interval>>
                       ELSE /\ \E w \in Workers : pc[w] = "unborn"
                            /\ LET w == CHOOSE w \in Workers :
                                          /\ pc[w] = "unborn"
                                          /\ \A v \in Workers :
                                                pc[v] = "unborn" => w <= v
                               IN  /\ pc' = [pc EXCEPT ![w] = "spawned"]
                                   /\ tickers' = [tickers EXCEPT ![w] =
                                        StrList(PyGet(lc.ret, "test_tickers"))]
                                   /\ interval' = [interval EXCEPT ![w] =
                                        PyGet(lc.ret, "prediction_interval").n]
                            /\ last_call' = "True"
            /\ UNCHANGED <<bench, appended, model_files, scaler_file, results_file, is_running,
                           prediction_history, performance_metrics, idx,
                           features, predictions, model_calls, slept, now>>

\* stop_testing
stop_testing ==
    /\ is_running' = FALSE
    /\ last_call' = "stop"
    /\ UNCHANGED <<bench, appended, disk, registry, prediction_history, performance_metrics,
                   config, pc, locals, now>>

(***************************************************************************)
(* The thread: run_continuous_testing                                      *)
(***************************************************************************)
\* the thread starts running: self.is_running = True
ThreadRun(w) ==
    /\ pc[w] = "spawned"
    /\ is_running' = TRUE
    /\ pc' = [pc EXCEPT ![w] = "check"]
    /\ UNCHANGED <<bench, appended, disk, registry, prediction_history, performance_metrics,
                   control, locals, now>>

\* while self.is_running: a new sweep, or the way out of the loop
LoopCheck(w) ==
    /\ pc[w] = "check"
    /\ IF is_running
       THEN /\ idx' = [idx EXCEPT ![w] = 1]
            /\ pc' = [pc EXCEPT ![w] =
                        IF tickers[w] = <<>> THEN "sleep" ELSE "collect"]
            /\ slept' = [slept EXCEPT ![w] =
                        IF tickers[w] = <<>> THEN interval[w] ELSE @]
       ELSE /\ pc' = [pc EXCEPT ![w] = "exit"]
            /\ UNCHANGED <<idx, slept>>
    /\ UNCHANGED <<bench, appended, disk, registry, is_running, prediction_history,
                   performance_metrics, control, tickers, interval, features,
                   predictions, model_calls, now>>

\* the end of the body of the for loop for one ticker: the next ticker,
\* or time.sleep(interval) after the last one.  The locals of the body are
\* dead until the next iteration assigns them.
NextTicker(w) ==
    /\ idx' = [idx EXCEPT ![w] = IF @ >= Len(tickers[w]) THEN 0 ELSE @ + 1]
    /\ pc' = [pc EXCEPT ![w] =
                IF idx[w] >= Len(tickers[w]) THEN "sleep" ELSE "collect"]
    /\ slept' = [slept EXCEPT ![w] =
                IF idx[w] >= Len(tickers[w]) THEN interval[w] ELSE @]
    /\ features' = [features EXCEPT ![w] = None]
    /\ predictions' = [predictions EXCEPT ![w] = <<>>]
    /\ model_calls' = [model_calls EXCEPT ![w] = <<>>]

\* the records whose data is on its way to the history
InFlight == Cardinality({w \in Workers : pc[w] \in {"predict", "append"}})

\* the loop body without the test of features
CollectUnguarded(w) ==
    /\ pc[w] = "collect"
    /\ \E f \in {collect_realtime_data(tickers[w][idx[w]], primary, news,
                                         fallback, now) :
                  primary \in SourceOutcomes, news \in NewsOutcomes,
                  fallback \in SourceOutcomes} :
              /\ now + InFlight < MaxRecords
              /\ features' = [features EXCEPT ![w] = f]
    /\ pc' = [pc EXCEPT ![w] = "predict"]
    /\ UNCHANGED <<bench, appended, disk, registry, is_running, prediction_history,
                   performance_metrics, control, tickers, interval, idx,
                   slept, predictions, model_calls, now>>

\* features = self.collect_realtime_data(ticker); if features: ...
Collect(w) ==
    /\ pc[w] = "collect"
    /\ \E f \in {collect_realtime_data(tickers[w][idx[w]], primary, news,
                                         fallback, now) :
                  primary \in SourceOutcomes, news \in NewsOutcomes,
                  fallback \in SourceOutcomes} :
              /\ ~f.none => now + InFlight < MaxRecords
              /\ IF f.none
                 THEN NextTicker(w)
                 ELSE /\ features' = [features EXCEPT ![w] = f]
                      /\ pc' = [pc EXCEPT ![w] = "predict"]
                      /\ UNCHANGED <<idx, slept, predictions, model_calls>>
    /\ UNCHANGED <<bench, appended, disk, registry, is_running, prediction_history,
                   performance_metrics, control, tickers, interval,
                   now>>

\* predictions = self.make_prediction(features)
Predict(w) ==
    /\ pc[w] = "predict"
    /\ \E scaler_raises \in BOOLEAN,
          calls \in [{models[i] : i \in 1..Len(models)} -> ModelOutcomes] :
          /\ scaler_raises => scaler
          /\ model_calls' = [model_calls EXCEPT ![w] =
                IF preparation_raises(features[w], scaler, scaler_raises)
                THEN <<>>
                ELSE [i \in 1..Len(models) |-> calls[models[i]]]]
          /\ predictions' = [predictions EXCEPT ![w] =
                make_prediction(features[w], models, scaler, scaler_raises,
                                calls)]
    /\ pc' = [pc EXCEPT ![w] = "append"]
    /\ UNCHANGED <<bench, appended, disk, registry, is_running, prediction_history,
                   performance_metrics, control, tickers, interval, idx,
                   features, slept, now>>

\* result = {...}; self.prediction_history.append(result).  The local
\* features is not read again before the next iteration assigns it.
AppendResult(w) ==
    /\ pc[w] = "append"
    /\ LET result == [ticker |-> tickers[w][idx[w]], timestamp |-> now + 1,
                      features |-> features[w],
                      predictions |-> predictions[w]]
       IN  prediction_history' = deque_append(prediction_history, result)
    /\ now' = now + 1
    /\ appended' = appended (+) SetToBag({tickers[w][idx[w]]})
    /\ pc' = [pc EXCEPT ![w] = "evaluate"]
    /\ features' = [features EXCEPT ![w] = None]
    /\ UNCHANGED <<bench, disk, registry, is_running, performance_metrics, control,
                   tickers, interval, idx, predictions, model_calls, slept>>

\* self.evaluate_prediction_performance(ticker)
Evaluate(w) ==
    /\ pc[w] = "evaluate"
    /\ performance_metrics' =
          evaluate_prediction_performance(performance_metrics,
              prediction_history, tickers[w][idx[w]], NoEvent)
    /\ pc' = [pc EXCEPT ![w] = "persist"]
    /\ UNCHANGED <<bench, appended, disk, registry, is_running, prediction_history, control,
                   locals, now>>

\* with open(realtime_results.json, "w") as f: json.dump({...}, f).  An
\* exception of open or of json.dump leaves the for loop for the handler
\* of the while body.
Persist(w) ==
    /\ pc[w] = "persist"
    /\ \E io \in IOOutcomes :
          /\ results_file' =
                WriteJson(results_file,
                    ResultsDocument(prediction_history, performance_metrics,
                                    now), io)
          /\ IF io = "ok"
             THEN NextTicker(w)
             ELSE /\ pc' = [pc EXCEPT ![w] = "except"]
                  /\ UNCHANGED <<idx, slept, features, predictions,
                                 model_calls>>
    /\ UNCHANGED <<bench, appended, config_file, model_files, scaler_file, registry,
                   is_running, prediction_history, performance_metrics,
                   control, tickers, interval, now>>

\* a handler that leaves the loop, as the one of KeyboardInterrupt does
ExceptHandlerBreak(w) ==
    /\ pc[w] = "except"
    /\ pc' = [pc EXCEPT ![w] = "exit"]
    /\ idx' = [idx EXCEPT ![w] = 0]
    /\ features' = [features EXCEPT ![w] = None]
    /\ predictions' = [predictions EXCEPT ![w] = <<>>]
    /\ model_calls' = [model_calls EXCEPT ![w] = <<>>]
    /\ UNCHANGED <<bench, appended, disk, registry, is_running, prediction_history,
                   performance_metrics, control, tickers, interval, slept,
                   now>>

\* except Exception as e: log the error, time.sleep(60)
ExceptHandler(w) ==
    /\ pc[w] = "except"
    /\ pc' = [pc EXCEPT ![w] = "sleep"]
    /\ slept' = [slept EXCEPT ![w] = 60]
    /\ idx' = [idx EXCEPT ![w] = 0]
    /\ features' = [features EXCEPT ![w] = None]
    /\ predictions' = [predictions EXCEPT ![w] = <<>>]
    /\ model_calls' = [model_calls EXCEPT ![w] = <<>>]
    /\ UNCHANGED <<bench, appended, disk, registry, is_running, prediction_history,
                   performance_metrics, control, tickers, interval, now>>

\* time.sleep returns
Wake(w) ==
    /\ pc[w] = "sleep"
    /\ pc' = [pc EXCEPT ![w] = "check"]
    /\ slept' = [slept EXCEPT ![w] = 0]
    /\ UNCHANGED <<bench, appended, disk, registry, is_running, prediction_history,
                   performance_metrics, control, tickers, interval, idx,
                   features, predictions, model_calls, now>>

\* after the loop: self.is_running = False, and the thread ends
ThreadExit(w) ==
    /\ pc[w] = "exit"
    /\ is_running' = FALSE
    /\ pc' = [pc EXCEPT ![w] = "done"]
    /\ UNCHANGED <<bench, appended, disk, registry, prediction_history, performance_metrics,
                   control, locals, now>>

\* the control context starts the engine until one start succeeds, as
\* __main__ does, and may stop it at any time
Next ==
    \/ (\A w \in Workers : pc[w] = "unborn") /\ start_testing
    \/ stop_testing
    \/ \E w \in Workers : ThreadRun(w)
    \/ \E w \in Workers : LoopCheck(w)
    \/ \E w \in Workers : Collect(w)
    \/ \E w \in Workers : Predict(w)
    \/ \E w \in Workers : AppendResult(w)
    \/ \E w \in Workers : Evaluate(w)
    \/ \E w \in Workers : Persist(w)
    \/ \E w \in Workers : ExceptHandler(w)
    \/ \E w \in Workers : Wake(w)
    \/ \E w \in Workers : ThreadExit(w)

Spec == Init /\ [][Next]_vars

(***************************************************************************)
(* The start-up of the engine in any working directory, while the data     *)
(* sources have no market data: every start_testing call, the threads it   *)
(* creates and their sweeps.                                               *)
(***************************************************************************)
CollectNoData(w) == Collect(w) /\ features'[w].none /\ pc'[w] # "predict"

NextStartup ==
    \/ start_testing
    \/ stop_testing
    \/ \E w \in Workers : ThreadRun(w)
    \/ \E w \in Workers : LoopCheck(w)
    \/ \E w \in Workers : CollectNoData(w)
    \/ \E w \in Workers : Wake(w)
    \/ \E w \in Workers : ThreadExit(w)

SpecStartup == Boot /\ [][NextStartup]_vars

(***************************************************************************)
(* The functions on their own: one call of a function with arguments from  *)
(* a bounded set, and what it returns.                                     *)
(***************************************************************************)
\* longest frame of bars handed to _calculate_features
MaxBars == 51

\* the n-th element of the endless repetition of the pattern p
Cyclic(p, n) == p[((n - 1) % Len(p)) + 1]

\* the sum of the first n elements of the endless repetition of p
CyclicSum(p, n) == (n \div Len(p)) * Sum(p) + Sum(SubSeq(p, 1, n % Len(p)))

\* a frame of n one-minute bars: the close starts at start and moves by
\* the steps in turn, the volume takes the values of vols in turn
Frame(start, steps, vols, n) ==
    [i \in 1..n |-> Bar(start + CyclicSum(steps, i - 1), Cyclic(vols, i))]

\* the patterns of one or two elements of S
Patterns(S) == {<<a>> : a \in S} \cup {<<a, b>> : a \in S, b \in S}

\* the frames of the calls: flat, rising, falling and alternating closes
\* with steps below and above 5 percent, volumes that are zero, steady
\* and more than tripling, the empty frame, and the frames of two bars
\* whose close moves by 5 percent or more and whose volume grows by 200
\* percent or more
Frames ==
    {<<>>} \cup
    {Frame(60, steps, vols, n) :
        steps \in Patterns({0 - 1, 0, 4}), vols \in Patterns({0, 10, 40}),
        n \in 1..MaxBars} \cup
    {Frame(60, <<s>>, <<10, v>>, 2) :
        s \in {0 - 4, 0 - 3, 3, 4}, v \in {30, 31}}

\* the calls of _calculate_features
FeatureCalls ==
    {[fn |-> "calculate_features", ticker |-> "NVDA", hist |-> h] :
        h \in Frames}

\* one call of _calculate_features, as _fallback_data_collection makes it
CalculateFeatures ==
    /\ call.fn = "calculate_features"
    /\ ret = Pending
    /\ ret' = Returned(calculate_features(call.ticker, call.hist, F(0, 1),
                                          F(0, 1), 0, 0))
    /\ UNCHANGED <<engine, call>>

\* the windows of the calls of detect_feature_drift: up to MaxRows samples
\* of two features
MaxRows == 2
DriftRows == {<<a, b>> : a \in {1, 3}, b \in {1, 3}}
DriftWindows ==
    {Window(2, rows) :
        rows \in UNION {[1..k -> DriftRows] : k \in 0..MaxRows}}

\* the windows of X_test: those of X_train, and windows whose first
\* feature stays at the value between
DriftTestWindows ==
    DriftWindows \cup
    {Window(2, [i \in 1..k |-> <<2, b>>]) : b \in {1, 3}, k \in 1..MaxRows}

\* the calls of detect_feature_drift
DriftCalls ==
    {[fn |-> "detect_feature_drift", X_train |-> a, X_test |-> b,
      feature_names |-> <<"close", "volume">>, threshold |-> t] :
        a \in DriftWindows, b \in DriftTestWindows,
        t \in {F(0, 1), F(1, 10), F(1, 2), F(1, 1)}}

\* one call of detect_feature_drift
DetectFeatureDrift ==
    /\ call.fn = "detect_feature_drift"
    /\ ret = Pending
    /\ ret' = Returned(detect_feature_drift(call.X_train, call.X_test,
                                    call.feature_names, call.threshold))
    /\ UNCHANGED <<engine, call>>

\* what the request of a news source does: it raises, or it delivers the
\* polarities of the texts it found, in hundredths
FeedOutcomes == {Raises, Returns(<<>>), Returns(<<20>>)}
ResponseOutcomes ==
    {Raises, Returns([status |-> "error", results |-> <<0 - 50>>]),
     Returns([status |-> "success", results |-> <<>>]),
     Returns([status |-> "success", results |-> <<0 - 50>>])}
PageOutcomes == {Raises, Returns(<<>>), Returns(<<0, 5>>)}

\* the calls of get_news_data
NewsCalls ==
    {[fn |-> "get_news_data", feed |-> f, response |-> r, page |-> p] :
        f \in FeedOutcomes, r \in ResponseOutcomes, p \in PageOutcomes}

\* one call of get_news_data
GetNewsData ==
    /\ call.fn = "get_news_data"
    /\ ret = Pending
    /\ ret' = Returned(get_news_data(call.feed, call.response, call.page))
    /\ UNCHANGED <<engine, call>>

\* what the request of a market data source does: it raises, it delivers
\* nothing, or it delivers bars
HistoryOutcomes == {Raises, Returns(<<>>), Returns(<<Bar(60, 10), Bar(61, 10)>>)}
QuoteOutcomes == {Raises, Returns(<<>>), Returns(<<Bar(62, 40)>>)}

\* the calls of get_market_data
MarketCalls ==
    {[fn |-> "get_market_data", history |-> h, response |-> r] :
        h \in HistoryOutcomes, r \in QuoteOutcomes}

\* one call of get_market_data
GetMarketData ==
    /\ call.fn = "get_market_data"
    /\ ret = Pending
    /\ ret' = Returned(get_market_data(call.history, call.response))
    /\ UNCHANGED <<engine, call>>

\* what monitor_prediction_confidence hands on: no model, a model with
\* few and a model with many predictions of low confidence
ConfidenceResults ==
    {<<>>,
     <<[model |-> "random_forest", low_confidence_ratio |-> F(1, 10)]>>,
     <<[model |-> "random_forest", low_confidence_ratio |-> F(3, 10)]>>}

\* what detect_feature_drift hands on for the calls
DriftResults(calls) ==
    {detect_feature_drift(c.X_train, c.X_test, c.feature_names,
                          c.threshold) : c \in calls}

\* the calls of create_monitoring_dashboard with these drift results, as
\* run_full_monitoring makes them
DashboardCalls(results) ==
    {[fn |-> "create_monitoring_dashboard", confidence_results |-> c,
      drift_results |-> d, io |-> io] :
        c \in ConfidenceResults, d \in results, io \in IOOutcomes}

\* one call of create_monitoring_dashboard
CreateMonitoringDashboard ==
    /\ call.fn = "create_monitoring_dashboard"
    /\ ret = Pending
    /\ ret' = Returned(create_monitoring_dashboard(call.confidence_results,
                                        call.drift_results, call.io))
    /\ UNCHANGED <<engine, call>>

\* the feature dict of one bar
SampleFeatures ==
    calculate_features("NVDA", <<Bar(60, 10)>>, F(0, 1), F(0, 1), 0, 0)

\* the dict d without the key k
Without(d, k) == [x \in DOMAIN d \ {k} |-> d[x]]

\* the feature dicts of the calls of make_prediction: the dict that
\* _calculate_features makes, the dict without a schema field, without
\* the fields outside the schema, and with one more field
FeatureDicts ==
    {SampleFeatures,
     Without(SampleFeatures, "rsi"),
     Without(SampleFeatures, "news_count"),
     Without(Without(SampleFeatures, "ticker"), "timestamp"),
     [x \in DOMAIN SampleFeatures \cup {"sector"} |->
         IF x = "sector" THEN F(7, 1) ELSE SampleFeatures[x]]}

\* the calls of make_prediction
PredictionCalls ==
    {[fn |-> "make_prediction", features |-> f, models |-> m, scaler |-> s,
      scaler_raises |-> r, calls |-> c] :
        f \in FeatureDicts, m \in {<<"random_forest">>, ModelNames},
        s \in BOOLEAN, r \in BOOLEAN,
        c \in [ModelNameSet -> ModelOutcomes]}

\* one call of make_prediction
MakePrediction ==
    /\ call.fn = "make_prediction"
    /\ ret = Pending
    /\ ret' = Returned(make_prediction(call.features, call.models,
                               call.scaler, call.scaler_raises, call.calls))
    /\ UNCHANGED <<engine, call>>

InitFunctions ==
    /\ config_file = AbsentFile
    /\ model_files = {}
    /\ scaler_file = FALSE
    /\ results_file = AbsentFile
    /\ Constructed
    /\ call \in FeatureCalls \cup DriftCalls \cup PredictionCalls
                \cup DashboardCalls(DriftResults(DriftCalls))
                \cup NewsCalls \cup MarketCalls
    /\ ret = Pending

NextFunctions ==
    \/ CalculateFeatures
    \/ DetectFeatureDrift
    \/ MakePrediction
    \/ CreateMonitoringDashboard
    \/ GetNewsData
    \/ GetMarketData

SpecFunctions == InitFunctions /\ [][NextFunctions]_vars

(***************************************************************************)
(* The engine, and the statement that writes the results file on its own,  *)
(* for histories that are longer than the slice it keeps.                  *)
(***************************************************************************)
\* a record of the history as the loop builds it
SampleRecord(ticker, clock) ==
    [ticker |-> ticker, timestamp |-> clock,
     features |-> calculate_features(ticker, <<Bar(60, 10)>>, F(0, 1),
                                     F(0, 1), 0, clock),
     predictions |-> <<>>]

\* the histories of up to LatestN + 1 records
Histories ==
    {[i \in 1..Len(t) |-> SampleRecord(t[i], i)] :
        t \in UNION {[1..k -> {"NVDA", "AAPL"}] : k \in 0..(LatestN + 1)}}

\* the writes of the results file
WriteCalls ==
    {[fn |-> "write_results", history |-> h, performance_metrics |-> pm,
      io |-> io] :
        h \in Histories,
        pm \in {<<>>, evaluate_prediction_performance(<<>>,
                          <<SampleRecord("NVDA", 1)>>, "NVDA", NoEvent)},
        io \in IOOutcomes}

\* one write of the results file: the file after it
WriteResults ==
    /\ call.fn = "write_results"
    /\ ret = Pending
    /\ ret' = Returned(WriteJson(AbsentFile,
                  ResultsDocument(call.history, call.performance_metrics,
                                  Len(call.history)), call.io))
    /\ UNCHANGED <<engine, call>>

InitPersist ==
    \/ Init
    \/ /\ config_file = AbsentFile
       /\ model_files = {}
       /\ scaler_file = FALSE
       /\ results_file = AbsentFile
       /\ Constructed
       /\ call \in WriteCalls
       /\ ret = Pending

NextPersist ==
    \/ (\A w \in Workers : pc[w] = "unborn") /\ start_testing
    \/ stop_testing
    \/ \E w \in Workers : ThreadRun(w)
    \/ \E w \in Workers : LoopCheck(w)
    \/ \E w \in Workers : Collect(w)
    \/ \E w \in Workers : Predict(w)
    \/ \E w \in Workers : AppendResult(w)
    \/ \E w \in Workers : Evaluate(w)
    \/ \E w \in Workers : Persist(w)
    \/ \E w \in Workers : ExceptHandler(w)
    \/ \E w \in Workers : Wake(w)
    \/ \E w \in Workers : ThreadExit(w)
    \/ WriteResults

SpecPersist == InitPersist /\ [][NextPersist]_vars

(***************************************************************************)
(* Properties                                                              *)
(***************************************************************************)
Min(a, b) == IF a <= b THEN a ELSE b

Collected(w) ==
    /\ pc[w] = "collect"
    /\ <<pc[w], idx[w]>>' # <<pc[w], idx[w]>>

\* C2: when the collection of an instrument returns no features, the
\* instrument's turn ends there: the thread goes on to the next ticker or
\* to the sleep that ends the sweep (no exception has escaped), and the
\* history, the metrics and the results file are what they were.
C2_NoDataNoEffect ==
    [][\A w \in Workers :
          Collected(w) /\ features'[w].none =>
              /\ pc'[w] \in {"collect", "sleep"}
              /\ idx'[w] = (IF idx[w] >= Len(tickers[w]) THEN 0
                            ELSE idx[w] + 1)
              /\ UNCHANGED <<prediction_history, performance_metrics,
                             results_file>>]_vars

\* a later sweep has skipped the first ticker, which never had data, while
\* the second ticker has its record, its metrics and the results file of
\* an earlier sweep
C2_SkippedWithHistory ==
    \E w \in Workers :
        /\ pc[w] = "collect" /\ idx[w] = 2 /\ now = 1
        /\ Len(prediction_history) = 1
        /\ prediction_history[1].ticker = tickers[w][2]
        /\ Len(performance_metrics) = 1
        /\ results_file.kind = "json"

\* C3: a failure in a step of one instrument abandons that instrument
\* only: whenever an exception reaches the handler of the while body, no
\* instrument of the sweep is left unprocessed.
C3_LaterInstrumentsProcessed ==
    \A w \in Workers : pc[w] = "except" => idx[w] >= Len(tickers[w])

\* C4: an exception that escapes the for loop does not end the thread.
\* Raising and handling it leave the history and the metrics as they are,
\* the handler sleeps 60 seconds, the sleep leads back to the loop test,
\* the loop test starts a new sweep at the first ticker while is_running
\* holds, and the thread leaves the loop from the loop test only, when
\* is_running is false.
C4_CooldownThenRetry ==
    [][\A w \in Workers :
          /\ pc'[w] = "except" /\ pc[w] # "except" =>
                UNCHANGED <<prediction_history, performance_metrics>>
          /\ pc[w] = "except" /\ pc'[w] # "except" =>
                /\ pc'[w] = "sleep" /\ slept'[w] = 60
                /\ UNCHANGED <<prediction_history, performance_metrics>>
          /\ pc[w] = "sleep" /\ pc'[w] # "sleep" => pc'[w] = "check"
          /\ pc[w] = "check" /\ pc'[w] # "check" /\ is_running =>
                pc'[w] = "collect" /\ idx'[w] = 1
          /\ pc'[w] = "exit" /\ pc[w] # "exit" =>
                pc[w] = "check" /\ ~is_running]_vars

\* a record was appended and its persist raised before the file existed;
\* the thread is at the first ticker of a later sweep with the record and
\* its metrics in memory
C4_RetriedAfterException ==
    \E w \in Workers :
        /\ pc[w] = "collect" /\ idx[w] = 1
        /\ now >= 1 /\ Len(prediction_history) >= 1
        /\ Len(performance_metrics) >= 1
        /\ results_file = AbsentFile

\* C5: once stop_testing was called after a start_testing that returned
\* True, is_running is false and stays false.
C5_StopTakesEffect ==
    (last_call = "stop" /\ \E w \in Workers : pc[w] # "unborn")
        => ~is_running

\* C6: stopping is not preemptive: while is_running is false, a thread
\* that is inside a sweep stays inside it until it has processed the last
\* ticker.
C6_SweepCompletesUnderStop ==
    [][\A w \in Workers :
          ~is_running /\ pc[w] \in SweepPcs =>
              \/ pc'[w] \in SweepPcs
              \/ pc'[w] = "sleep" /\ idx[w] = Len(tickers[w])]_vars

\* C7: when no classifier is loaded start_testing has never returned True;
\* after a start_testing that returned False no thread exists; and as
\* long as no thread exists is_running is false, no record is in the
\* history, no metrics exist and the results file was never written.
C7_NoModelsNoRun ==
    /\ models = <<>> => last_call # "True"
    /\ last_call = "False" => \A w \in Workers : pc[w] = "unborn"
    /\ (\A w \in Workers : pc[w] = "unborn") =>
          /\ ~is_running
          /\ prediction_history = <<>>
          /\ performance_metrics = <<>>
          /\ results_file = AbsentFile

\* start_testing has returned False with no classifier loaded
C7_StartFailed == last_call = "False" /\ models = <<>>

\* C8: a start_testing call that finds no config file and does not raise
\* writes the default config and gets that config, whose test_tickers are
\* AAPL, MSFT, GOOGL, AMZN, TSLA and whose prediction_interval is 300; a
\* call that finds the written default reads the same config back; and a
\* call that finds a config file leaves the file as it is.
C8_DefaultConfig ==
    [][start_testing =>
          /\ config_file = AbsentFile /\ last_call' # "raised" =>
                /\ config_file' = JsonFile(JsonDump(default_config))
                /\ config' = default_config
                /\ StrList(PyGet(config', "test_tickers")) =
                      <<"AAPL", "MSFT", "GOOGL", "AMZN", "TSLA">>
                /\ PyGet(config', "prediction_interval") = PyInt(300)
          /\ config_file = JsonFile(JsonDump(default_config)) =>
                config' = default_config
          /\ config_file.kind = "json" => config' = JsonLoad(config_file.doc)
          /\ config_file # AbsentFile => config_file' = config_file]_vars

\* the default config was written, read back by a second start_testing
\* and used for a thread
C8_DefaultInUse ==
    /\ config_file = JsonFile(JsonDump(default_config))
    /\ config = default_config
    /\ pc[2] # "unborn"
    /\ tickers[2] = <<"AAPL", "MSFT", "GOOGL", "AMZN", "TSLA">>
    /\ interval[2] = 300

\* C9: the mapping make_prediction returns holds an entry for every loaded
\* model whose calls did not raise, in the order of the models, and no
\* entry for a model whose call raised; the thread goes on to append the
\* record.
C9_ModelFailureIsolation ==
    \A w \in Workers :
        pc[w] = "append" /\ model_calls[w] # <<>> =>
            LET ok == SelectSeq([i \in 1..Len(models) |->
                                    [model |-> models[i],
                                     call |-> model_calls[w][i]]],
                                LAMBDA e : ~e.call.raises)
            IN  /\ Len(predictions[w]) = Len(ok)
                /\ \A i \in 1..Len(ok) :
                      /\ predictions[w][i].model = ok[i].model
                      /\ predictions[w][i].probability = ok[i].call.proba

\* of two loaded models the first raised and the second has its entry
C9_OneModelFailed ==
    \E w \in Workers :
        /\ pc[w] = "append" /\ Len(models) = 2 /\ Len(model_calls[w]) = 2
        /\ model_calls[w][1].raises /\ ~model_calls[w][2].raises
        /\ Len(predictions[w]) = 1
        /\ predictions[w][1].model = models[2]

\* C10: for every instrument correct_predictions + false_positives +
\* false_negatives never exceeds total_predictions.
C10_BucketsWithinTotal ==
    \A i \in 1..Len(performance_metrics) :
        performance_metrics[i].correct_predictions
          + performance_metrics[i].false_positives
          + performance_metrics[i].false_negatives
        <= performance_metrics[i].total_predictions


\* the three correctness buckets of an instrument; an instrument without
\* metrics has counted nothing
Buckets(pm, ticker) ==
    IF HasKey(pm, ticker)
    THEN <<pm[KeyIndex(pm, ticker)].correct_predictions,
           pm[KeyIndex(pm, ticker)].false_positives,
           pm[KeyIndex(pm, ticker)].false_negatives>>
    ELSE <<0, 0, 0>>

\* C11: the evaluation that the loop performs, which passes no
\* actual_event, leaves correct_predictions, false_positives and
\* false_negatives of the instrument as they were and appends the
\* confidence of every entry of the latest record.
C11_UnknownLabelLeavesBuckets ==
    [][\A w \in Workers :
          pc[w] = "evaluate" /\ pc'[w] = "persist" =>
              LET t == tickers[w][idx[w]]
                  before == IF HasKey(performance_metrics, t)
                            THEN performance_metrics[
                                   KeyIndex(performance_metrics, t)
                                 ].confidence_scores
                            ELSE <<>>
                  after == performance_metrics'[
                              KeyIndex(performance_metrics', t)
                           ].confidence_scores
              IN  /\ Buckets(performance_metrics', t)
                        = Buckets(performance_metrics, t)
                  /\ Len(after) = Len(before) + Len(predictions[w])]_vars

\* C12: a write of the results document that fails does not end the
\* thread, leaves the record and the metrics in memory, and the thread
\* goes on to score the instruments that follow: the next ticker, or the
\* sleep that ends the sweep after the last one.
C12_WriteFailureKeepsScoring ==
    [][\A w \in Workers :
          pc[w] = "persist" /\ pc'[w] # "persist"
            /\ results_file' # JsonFile(JsonDump(ResultsDocument(
                   prediction_history, performance_metrics, now))) =>
              /\ pc'[w] \notin {"exit", "done"}
              /\ UNCHANGED <<prediction_history, performance_metrics>>
              /\ IF idx[w] < Len(tickers[w])
                 THEN pc'[w] = "collect" /\ idx'[w] = idx[w] + 1
                 ELSE pc'[w] = "sleep"]_vars

\* C13: once the results file holds a complete document it holds a
\* complete document after every step.
C13_ResultsAlwaysParsable ==
    [][results_file.kind = "json" => results_file'.kind = "json"]_vars

\* the threads that are inside run_continuous_testing
Running == {w \in Workers : pc[w] \notin {"unborn", "done"}}

\* C14: at most one thread is inside run_continuous_testing at any time.
C14_SingleWorker == Cardinality(Running) <= 1

\* a call of _calculate_features on a frame with at least one bar has
\* returned
Computed == call.fn = "calculate_features" /\ ~ret.pending /\ call.hist # <<>>

\* the closes of the frame of the call
Closes == [i \in 1..Len(call.hist) |-> call.hist[i].Close]

\* C15: for a frame with at least one bar _calculate_features returns a
\* dict that has each of the 21 schema fields, and the value of every one
\* of them is a number: not nan and not infinite.
C15_FeaturesAllNumeric ==
    Computed =>
        /\ ~ret.v.none
        /\ Len(feature_names) = 21
        /\ \A i \in 1..Len(feature_names) :
              /\ feature_names[i] \in DOMAIN ret.v
              /\ IsFinite(ret.v[feature_names[i]])

\* C16: with fewer than 15 closes, that is fewer than 14 price changes,
\* the rsi of the dict is 100.
C16_ShortHistoryRsi100 ==
    Computed /\ Len(call.hist) < 15 => ret.v.rsi = F(100, 1)

\* C17: the call never fails on a frame with at least one bar; sma_20 is
\* the latest close with fewer than 20 closes and the mean of the last 20
\* closes otherwise, and sma_50 likewise with 50.
C17_MovingAverages ==
    Computed =>
        LET n == Len(Closes)
        IN  /\ ~ret.v.none
            /\ n < 20 => ret.v.sma_20 = F(Closes[n], 1)
            /\ n >= 20 =>
                  ret.v.sma_20 = F(Sum(SubSeq(Closes, n - 19, n)), 20)
            /\ n < 50 => ret.v.sma_50 = F(Closes[n], 1)
            /\ n >= 50 =>
                  ret.v.sma_50 = F(Sum(SubSeq(Closes, n - 49, n)), 50)

\* frames of 19, 20 and 51 rising closes were averaged: the short one
\* gives the latest close, the long ones a mean below it
C17_WindowsFilled ==
    /\ Computed /\ Len(call.hist) >= 50
    /\ FGt(F(Closes[Len(Closes)], 1), ret.v.sma_20)
    /\ FGt(ret.v.sma_20, ret.v.sma_50)

\* C18: detect_feature_drift on two identical windows returns an entry
\* for every feature, with mean_drift 0, std_drift 0, is_drift false and
\* drift_severity "low", for the thresholds 0 and above.
C18_IdenticalWindowsNoDrift ==
    /\ call.fn = "detect_feature_drift" /\ ~ret.pending
    /\ call.X_train = call.X_test /\ FGe(call.threshold, F(0, 1))
    => /\ Len(ret.v) = Len(call.feature_names)
       /\ \A i \in 1..Len(ret.v) :
             /\ ret.v[i].feature = call.feature_names[i]
             /\ ret.v[i].mean_drift = F(0, 1)
             /\ ret.v[i].std_drift = F(0, 1)
             /\ ~ret.v[i].is_drift
             /\ ret.v[i].drift_severity = "low"

\* two identical windows whose features vary were compared at threshold 0
C18_VaryingWindowCompared ==
    /\ call.fn = "detect_feature_drift" /\ ~ret.pending
    /\ call.X_train = call.X_test /\ call.threshold = F(0, 1)
    /\ Len(ret.v) = 2
    /\ \A i \in 1..2 : FGt(np_std(Column(call.X_train, i)), F(0, 1))

\* C19: make_prediction on a feature dict, when neither the scaler nor a
\* model raises, returns an entry for every loaded model, also when the
\* dict lacks a schema field; and the values handed on are those of the
\* 21 schema fields only.
C19_MissingFieldDefaultsToZero ==
    /\ call.fn = "make_prediction" /\ ~ret.pending
    /\ ~(call.scaler /\ call.scaler_raises)
    /\ \A i \in 1..Len(call.models) : ~call.calls[call.models[i]].raises
    => /\ Len(ret.v) = Len(call.models)
       /\ \A i \in 1..Len(ret.v) : ret.v[i].model = call.models[i]
       /\ Len(feature_matrix(call.features).X) = Len(feature_names)

\* C20: a thread whose make_prediction failed as a whole goes on to the
\* next instrument without an append to the history and without a change
\* of the metrics.
C20_FailedPredictionSkipped ==
    [][\A w \in Workers :
          pc[w] = "append" /\ model_calls[w] = <<>> /\ pc'[w] # "append" =>
              /\ UNCHANGED <<prediction_history, performance_metrics>>
              /\ pc'[w] \in {"collect", "sleep"}]_vars

\* C21: while is_running holds, a thread goes to sleep only at the end of
\* a sweep that has reached the last configured ticker, and the sleep is
\* the configured prediction interval.
C21_SweepThenInterval ==
    [][\A w \in Workers :
          is_running /\ pc[w] # "sleep" /\ pc'[w] = "sleep" =>
              /\ idx[w] >= Len(tickers[w])
              /\ slept'[w] = interval[w]]_vars

\* the metrics of the ticker, or fresh ones when it has none
Entry(pm, ticker) ==
    IF HasKey(pm, ticker) THEN pm[KeyIndex(pm, ticker)]
    ELSE new_metrics(ticker)

\* C23: an evaluate_prediction_performance call for a ticker whose latest
\* record holds k model entries adds k to total_predictions and appends k
\* values to confidence_scores.
C23_TotalCountsEveryModel ==
    [][\A w \in Workers :
          pc[w] = "evaluate" /\ pc'[w] = "persist" =>
              LET t == tickers[w][idx[w]]
                  recent == SelectSeq(prediction_history,
                                      LAMBDA p : p.ticker = t)
                  k == Len(recent[Len(recent)].predictions)
                  before == Entry(performance_metrics, t)
                  after == Entry(performance_metrics', t)
              IN  recent # <<>> =>
                    /\ after.total_predictions =
                          before.total_predictions + k
                    /\ Len(after.confidence_scores) =
                          Len(before.confidence_scores) + k]_vars

\* C27: after a start_testing that returned True and no stop_testing
\* since, is_running is true.
C27_RunningOnceStarted ==
    last_call = "True" => is_running

\* C28: for every instrument correct_predictions never exceeds
\* total_predictions.
C28_CorrectWithinTotal ==
    \A i \in 1..Len(performance_metrics) :
        performance_metrics[i].correct_predictions
          <= performance_metrics[i].total_predictions

\* a call of detect_feature_drift has returned
Compared == call.fn = "detect_feature_drift" /\ ~ret.pending

\* the values of the column are all the same
Constant(col) == \A a \in 1..Len(col), b \in 1..Len(col) : col[a] = col[b]

\* C24: in every entry detect_feature_drift returns, is_drift is true
\* exactly when mean_drift or std_drift is above the threshold;
\* drift_severity is "high" exactly when mean_drift is above twice the
\* threshold, otherwise "medium" exactly when is_drift, otherwise "low";
\* and both drifts are 0 when the feature does not vary in X_train,
\* whatever X_test holds.
C24_DriftClassification ==
    Compared =>
        \A i \in 1..Len(ret.v) :
            LET e == ret.v[i]
                t == call.threshold
                high == FGt(e.mean_drift, FMul(F(2, 1), t))
            IN  /\ e.is_drift <=>
                      (FGt(e.mean_drift, t) \/ FGt(e.std_drift, t))
                /\ e.drift_severity = "high" <=> high
                /\ e.drift_severity = "medium" <=> (~high /\ e.is_drift)
                /\ e.drift_severity = "low" <=> (~high /\ ~e.is_drift)
                /\ Constant(Column(call.X_train, i)) =>
                      e.mean_drift = F(0, 1) /\ e.std_drift = F(0, 1)

\* one feature is constant in X_train and has another mean in X_test,
\* and the other feature has a drift that is "medium" at this threshold
C24_ConstantReferenceAndMedium ==
    /\ Compared /\ Len(ret.v) = 2
    /\ Len(call.X_train.rows) = 2 /\ Constant(Column(call.X_train, 1))
    /\ np_mean(Column(call.X_test, 1)) # np_mean(Column(call.X_train, 1))
    /\ ~IsNaN(np_mean(Column(call.X_test, 1)))
    /\ ret.v[1].drift_severity = "low"
    /\ ret.v[2].drift_severity = "medium"

\* the volumes of the frame of the call
Volumes == [i \in 1..Len(call.hist) |-> call.hist[i].Volume]

\* C25: in the dict _calculate_features returns, unusual_volume is 1 when
\* volume_change is above 2 and 0 otherwise, and price_spike is 1 when
\* the absolute value of price_change is above 0.05 and 0 otherwise: for
\* a positive previous volume v, unusual_volume is 1 exactly when the
\* volume grew by more than 2 * v, and price_spike is 1 exactly when the
\* close moved by more than 5 percent of the previous close.  For a frame
\* of one bar both changes and both flags are 0.
C25_ChangeFlags ==
    Computed =>
        LET n == Len(call.hist)
            f == ret.v
        IN  /\ f.unusual_volume \in {F(0, 1), F(1, 1)}
            /\ f.price_spike \in {F(0, 1), F(1, 1)}
            /\ f.unusual_volume = F(1, 1) <=>
                  (~IsNaN(f.volume_change) /\
                   f.volume_change.n > 2 * f.volume_change.d)
            /\ n >= 2 /\ Volumes[n - 1] > 0 =>
                  (f.unusual_volume = F(1, 1) <=>
                      Volumes[n] - Volumes[n - 1] > 2 * Volumes[n - 1])
            /\ n >= 2 /\ Closes[n - 1] > 0 =>
                  (f.price_spike = F(1, 1) <=>
                      100 * Abs(Closes[n] - Closes[n - 1])
                          > 5 * Closes[n - 1])
            /\ n < 2 =>
                  /\ f.price_change = F(0, 1) /\ f.volume_change = F(0, 1)
                  /\ f.unusual_volume = F(0, 1) /\ f.price_spike = F(0, 1)

\* the close fell by exactly 5 percent and the volume grew by exactly 200
\* percent: neither flag is set
C25_ExactlyAtThresholds ==
    /\ Computed /\ Len(call.hist) = 2
    /\ 100 * (Closes[1] - Closes[2]) = 5 * Closes[1]
    /\ Volumes[2] = 3 * Volumes[1] /\ Volumes[1] > 0
    /\ ret.v.unusual_volume = F(0, 1) /\ ret.v.price_spike = F(0, 1)

\* a call of create_monitoring_dashboard has returned a dashboard
Built ==
    /\ call.fn = "create_monitoring_dashboard"
    /\ ~ret.pending /\ ~ret.v.none

\* C30: for a threshold of 0 or more every entry of a drift result has
\* drift_severity "low" exactly when is_drift is false, and "high" only
\* when is_drift is true; in a dashboard built from a drift result the
\* summary has high_severity_drift <= drift_detected <= total_features,
\* and the alerts hold a feature_drift alert exactly when
\* high_severity_drift is above 0.
C30_SeverityAndSummary ==
    /\ Compared /\ FGe(call.threshold, F(0, 1)) =>
          \A i \in 1..Len(ret.v) :
              /\ ret.v[i].drift_severity = "low" <=> ~ret.v[i].is_drift
              /\ ret.v[i].drift_severity = "high" => ret.v[i].is_drift
    /\ Built =>
          LET summary == ret.v.feature_drift_summary
          IN  /\ summary.total_features = Len(call.drift_results)
              /\ summary.high_severity_drift <= summary.drift_detected
              /\ summary.drift_detected <= summary.total_features
              /\ (\E i \in 1..Len(ret.v.alerts) :
                      ret.v.alerts[i].type = "feature_drift")
                    <=> summary.high_severity_drift > 0

\* a dashboard of two features, both drifting, one of them with high
\* severity: it holds the feature_drift alert
C30_HighAmongDetected ==
    /\ Built
    /\ ret.v.feature_drift_summary.total_features = 2
    /\ ret.v.feature_drift_summary.drift_detected = 2
    /\ ret.v.feature_drift_summary.high_severity_drift = 1
    /\ \E i \in 1..Len(ret.v.alerts) : ret.v.alerts[i].type = "feature_drift"

\* the requests of the news sources of the call, in the order of the
\* fallback chain, and whether a request has delivered an item
NewsRequests == <<call.feed, call.response, call.page>>
NewsDelivered(j) ==
    /\ NewsRequests[j].kind = "returns"
    /\ IF j = 2
       THEN /\ NewsRequests[j].v.status = "success"
            /\ NewsRequests[j].v.results # <<>>
       ELSE NewsRequests[j].v # <<>>

\* the requests of the market data sources of the call, and whether a
\* request has delivered a bar
MarketRequests == <<call.history, call.response>>
MarketDelivered(out) == out.kind = "returns" /\ out.v # <<>>

\* C26: get_news_data and get_market_data do not raise, whatever the
\* requests of their sources do.  The sources are consulted in the order
\* of the chain, a source only when no source before it has delivered,
\* and none after the first that has delivered; the result is made of
\* what the last consulted source delivered, and it is [] for the news
\* and None for the market data when no source has delivered.
C26_FallbackChains ==
    /\ call.fn = "get_news_data" /\ ~ret.pending =>
          LET chain == <<"yahoo_rss", "free_news_api", "web_scraping">>
              n == Len(ret.v.consulted)
          IN  /\ ret.v.outcome.kind = "returns"
              /\ n \in 1..3 /\ ret.v.consulted = SubSeq(chain, 1, n)
              /\ \A j \in 1..(n - 1) : ~NewsDelivered(j)
              /\ n < 3 => NewsDelivered(n)
              /\ IF NewsDelivered(n)
                 THEN LET found == IF n = 2 THEN NewsRequests[n].v.results
                                   ELSE NewsRequests[n].v
                      IN  /\ Len(ret.v.outcome.v) = Len(found)
                          /\ \A i \in 1..Len(found) :
                                ret.v.outcome.v[i].polarity = found[i]
                 ELSE ret.v.outcome.v = <<>>
    /\ call.fn = "get_market_data" /\ ~ret.pending =>
          LET chain == <<"yfinance", "alpha_vantage_free">>
              n == Len(ret.v.consulted)
          IN  /\ ret.v.outcome.kind = "returns"
              /\ n \in 1..2 /\ ret.v.consulted = SubSeq(chain, 1, n)
              /\ \A j \in 1..(n - 1) : ~MarketDelivered(MarketRequests[j])
              /\ n < 2 => MarketDelivered(MarketRequests[n])
              /\ IF MarketDelivered(MarketRequests[n])
                 THEN ret.v.outcome.v = DataFrame(MarketRequests[n].v)
                 ELSE ret.v.outcome.v.none

\* the feed raised and the free API answered with an error status, so the
\* items come from the third source
C26_ThirdSourceAnswers ==
    /\ call.fn = "get_news_data" /\ ~ret.pending
    /\ call.feed.kind = "raises"
    /\ call.response.kind = "returns" /\ call.response.v.status = "error"
    /\ Len(ret.v.consulted) = 3
    /\ Len(ret.v.outcome.v) = 2
    /\ ret.v.outcome.v[1].source = "Google News"

\* no thread is between the append of a record and its evaluation
CycleBoundary == \A w \in Workers : pc[w] # "evaluate"

\* C29: at every cycle boundary the metrics have one entry for every
\* instrument of which a record was appended since the process started
\* and for no other instrument, and the total_predictions of the entry is
\* the number of those records, whether the history still holds them or
\* not.
C29_EveryRecordCountedOnce ==
    CycleBoundary =>
        /\ \A i \in 1..Len(performance_metrics) :
              /\ performance_metrics[i].total_predictions =
                    CopiesIn(performance_metrics[i].ticker, appended)
              /\ performance_metrics[i].total_predictions >= 1
              /\ \A j \in 1..Len(performance_metrics) :
                    performance_metrics[j].ticker =
                        performance_metrics[i].ticker => j = i
        /\ \A t \in BagToSet(appended) : HasKey(performance_metrics, t)

\* two records of one instrument were appended and counted, the history
\* holds the later one only, and the other instrument has no entry
C29_CountedBeyondTheRing ==
    /\ CycleBoundary /\ now = 2 /\ Len(prediction_history) = 1
    /\ Len(performance_metrics) = 1
    /\ performance_metrics[1].total_predictions = 2
    /\ \E w \in Workers : Len(tickers[w]) = 2

\* the file holds the snapshot of the history and the metrics: its
\* latest_predictions are the last min(LatestN, length) records of the
\* history in their order, and its performance_metrics are the metrics
Snapshot(file, history, pm) ==
    /\ file.kind = "json"
    /\ LET n == Min(LatestN, Len(history))
           doc == JsonLoad(file.doc)
           latest == PyGet(doc, "latest_predictions").items
           metrics == PyGet(doc, "performance_metrics")
       IN  /\ Len(latest) = n
           /\ \A i \in 1..n :
                 latest[i] = RecordPy(history[Len(history) - n + i])
           /\ metrics.keys = [i \in 1..Len(pm) |-> pm[i].ticker]
           /\ metrics.vals = [i \in 1..Len(pm) |-> MetricsPy(pm[i])]

====
